---- MODULE Spec2Model ----
(***************************************************************************)
(* Model of password_checker.py: the strength evaluator                    *)
(* check_password_strength, the configuration loader load_config, the      *)
(* logging setup setup_logging and the command-line run (main and the      *)
(* __main__ guard).                                                        *)
(*                                                                         *)
(* Characters are Unicode code points; a str is a sequence of code points. *)
(* A Python value is a record [type, val]: isinstance(v, str) is           *)
(* v.type = "str".                                                         *)
(***************************************************************************)
EXTENDS Integers, Sequences, FiniteSets

VARIABLES
    pc,           \* position of the run (or of the direct call of the evaluator)
    exit_status,  \* the set holding the process's exit status once it has exited
    argv,         \* what the command line holds: "ok", "help", "no_password", "bad_min_length"
    password,     \* args.password / the evaluator's first argument
    min_length,   \* args.min_length / the evaluator's second argument
    cfg,          \* what is at args.config on disk
    config,       \* the mapping load_config returned
    logging,      \* the logging module's root logger and what its handlers wrote
    stderr,       \* lines printed directly on sys.stderr
    stdout,       \* lines printed on sys.stdout
    score,        \* main's local `score`
    feedback,     \* main's local `feedback`
    password2,    \* a second run on the same inputs but this password ...
    score2,       \* ... its score ...
    logging2      \* ... and its logging state

vars == <<pc, exit_status, argv, password, min_length, cfg, config, logging,
          stderr, stdout, score, feedback, password2, score2, logging2>>

----------------------------------------------------------------------------
(* Bounds of the model. *)

\* longest free-form prefix of a password handed to the evaluator
MaxPrefix == 4
\* a password is a prefix followed by 0..MaxPadBlocks blocks of padding
MaxPadBlocks == 3
\* largest min_length tried
MaxMinLength == 13

(* Program constants. *)
GoodLength == 12
DefaultMinLength == 8
MaxScore == 6

----------------------------------------------------------------------------
(* Python values. *)

PyStr(s) == [type |-> "str", val |-> s]

\* 'A', 'z', '7', '@', '_'
Alphabet == {65, 122, 55, 64, 95}
RECURSIVE StringsOfLen(_)
StringsOfLen(k) ==
    IF k = 0 THEN {<<>>}
    ELSE {Append(s, c) : s \in StringsOfLen(k - 1), c \in Alphabet}

\* n times '_'
Pad(n) == [i \in 1..n |-> 95]
PadLens == {k * MaxPrefix : k \in 0..MaxPadBlocks}

\* "short" and "Ab1!efgh"
Short == <<115, 104, 111, 114, 116>>
Ab1Efgh == <<65, 98, 49, 33, 101, 102, 103, 104>>

Strings ==
    {w \o Pad(n) : w \in UNION {StringsOfLen(k) : k \in 0..MaxPrefix}, n \in PadLens}
        \cup {Short, Ab1Efgh}

\* None, 42, b"Az7@" and a bytes value of good length
NonStrings ==
    {[type |-> "NoneType", val |-> <<>>],
     [type |-> "int", val |-> <<>>],
     [type |-> "bytes", val |-> <<65, 122, 55, 64>>],
     [type |-> "bytes", val |-> <<65, 122, 55, 64>> \o Pad(GoodLength)]}

EvalInputs == {PyStr(s) : s \in Strings} \cup NonStrings
MinLengths == {-1, 0, DefaultMinLength, GoodLength, MaxMinLength}

\* argparse hands main a str: the empty one, or one character and padding
MainPasswords ==
    {PyStr(w \o Pad(n)) : w \in {<<>>} \cup {<<c>> : c \in Alphabet}, n \in PadLens}
MainMinLengths == {DefaultMinLength, MaxMinLength}

----------------------------------------------------------------------------
(* The logging module, as far as the program uses it. *)

LevelNo(level) ==
    CASE level = "INFO" -> 20
      [] level = "WARNING" -> 30
      [] level = "ERROR" -> 40
      [] level = "CRITICAL" -> 50

LogRecord(level, msg, arg) == [level |-> level, msg |-> msg, arg |-> arg]

\* the root logger before anything configured it
FreshLogging == [handlers |-> {}, level |-> "WARNING", file |-> <<>>, console |-> <<>>]

\* logging.basicConfig(level=..., handlers=[...]): does nothing once the root
\* logger has a handler
basicConfig(lg, level, handlers) ==
    IF lg.handlers # {} THEN lg
    ELSE [lg EXCEPT !.handlers = handlers, !.level = level]

\* logging.info / error / critical: the module-level functions first call
\* basicConfig() when the root logger has no handler (a console handler, the
\* level left as it is), then hand the record to every handler
LogCall(lg, rec) ==
    LET lg1 == IF lg.handlers = {} THEN [lg EXCEPT !.handlers = {"console"}] ELSE lg
    IN  IF LevelNo(rec.level) < LevelNo(lg1.level) THEN lg1
        ELSE [lg1 EXCEPT
                !.file = IF "file" \in lg1.handlers THEN Append(@, rec) ELSE @,
                !.console = IF "console" \in lg1.handlers THEN Append(@, rec) ELSE @]

RECURSIVE LogAll(_, _)
LogAll(lg, recs) ==
    IF recs = <<>> THEN lg ELSE LogAll(LogCall(lg, Head(recs)), Tail(recs))

----------------------------------------------------------------------------
(* check_password_strength *)

UpperClass == 65..90
LowerClass == 97..122
DigitClass == 48..57
\* ! @ # $ % ^ & *
SpecialClass == {33, 64, 35, 36, 37, 94, 38, 42}

\* re.match in place of re.search: only the first character is looked at
re_match(class, s) ==
    s # <<>> /\ Head(s) \in class

\* re.search(r"[...]", s): scan s from the left for a character of the class
RECURSIVE re_search(_, _)
re_search(class, s) ==
    IF s = <<>> THEN FALSE
    ELSE IF Head(s) \in class THEN TRUE
    ELSE re_search(class, Tail(s))

Plain(text) == [prefix |-> "", text |-> text]
ErrorEntry(e) == [prefix |-> "Error: ", text |-> e]

\* the good-length tier worth three points
LengthTierThree(acc, n, minLen) ==
    IF n >= GoodLength
    THEN [score |-> acc.score + 3, feedback |-> Append(acc.feedback, Plain("Good length (>=12)"))]
    ELSE IF n >= minLen
    THEN [score |-> acc.score + 1, feedback |-> Append(acc.feedback, Plain("Minimum length met"))]
    ELSE [score |-> acc.score, feedback |-> Append(acc.feedback, Plain("Too short"))]

\* lines 47-54
LengthTier(acc, n, minLen) ==
    IF n >= GoodLength
    THEN [score |-> acc.score + 2, feedback |-> Append(acc.feedback, Plain("Good length (>=12)"))]
    ELSE IF n >= minLen
    THEN [score |-> acc.score + 1, feedback |-> Append(acc.feedback, Plain("Minimum length met"))]
    ELSE [score |-> acc.score, feedback |-> Append(acc.feedback, Plain("Too short"))]

\* a class check that forgets `score += 1`
ClassCheckNoPoint(acc, class, text, s) ==
    IF re_search(class, s)
    THEN [score |-> acc.score, feedback |-> Append(acc.feedback, Plain(text))]
    ELSE acc

\* one of the four `if re.search(...)` statements
ClassCheck(acc, class, text, s) ==
    IF re_search(class, s)
    THEN [score |-> acc.score + 1, feedback |-> Append(acc.feedback, Plain(text))]
    ELSE acc

ValueErrorMsg == "Password must be a string"

\* the body of the try without the isinstance check
TryBodyUnchecked(pw, minLen) ==
    LET a0 == [score |-> 0, feedback |-> <<>>]
        a1 == LengthTier(a0, Len(pw.val), minLen)
        a2 == ClassCheck(a1, UpperClass, "Has uppercase", pw.val)
        a3 == ClassCheck(a2, LowerClass, "Has lowercase", pw.val)
        a4 == ClassCheck(a3, DigitClass, "Has numbers", pw.val)
        a5 == ClassCheck(a4, SpecialClass, "Has special characters", pw.val)
    IN  [exc |-> "", score |-> a5.score, feedback |-> a5.feedback]

\* the body of the try: either an exception (exc # "") or the returned pair
TryBody(pw, minLen) ==
    IF pw.type # "str"
    THEN [exc |-> ValueErrorMsg, score |-> 0, feedback |-> <<>>]
    ELSE LET a0 == [score |-> 0, feedback |-> <<>>]
             a1 == LengthTier(a0, Len(pw.val), minLen)
             a2 == ClassCheck(a1, UpperClass, "Has uppercase", pw.val)
             a3 == ClassCheck(a2, LowerClass, "Has lowercase", pw.val)
             a4 == ClassCheck(a3, DigitClass, "Has numbers", pw.val)
             a5 == ClassCheck(a4, SpecialClass, "Has special characters", pw.val)
         IN  [exc |-> "", score |-> a5.score, feedback |-> a5.feedback]

\* an evaluator that also logs when it succeeds
EvaluatorLogsAlways(exc) ==
    IF exc = "" THEN <<LogRecord("ERROR", "Password checked", 0)>>
    ELSE <<LogRecord("ERROR", "Error checking password: " \o exc, 0)>>

\* the except clause: what the evaluator logs on the way out
EvaluatorLogs(exc) ==
    IF exc = "" THEN <<>>
    ELSE <<LogRecord("ERROR", "Error checking password: " \o exc, 0)>>

\* the whole function: its return value and the log calls it made
check_password_strength(pw, minLen) ==
    LET r == TryBody(pw, minLen)
    IN  IF r.exc # ""
        THEN [score |-> 0, feedback |-> <<ErrorEntry(r.exc)>>, logged |-> EvaluatorLogs(r.exc)]
        ELSE [score |-> r.score, feedback |-> r.feedback, logged |-> EvaluatorLogs(r.exc)]

----------------------------------------------------------------------------
(* load_config and setup_logging *)

DefaultLogFile == "logs/password_checker.log"
DefaultSettings == [has_log_file |-> TRUE, log_file |-> DefaultLogFile]

\* what may be at the path given with -c
CfgKinds == {"settings_with_log_file", "settings_without_log_file",
             "missing", "unparsable", "no_settings_section"}
CfgFailures == {"missing", "unparsable", "no_settings_section"}

\* str(e) of the exception the try block of load_config ends with
ConfigError(kind) ==
    CASE kind = "missing" -> "Config file not found"
      [] kind = "unparsable" -> "File contains parsing errors"
      [] kind = "no_settings_section" -> "'Settings'"
      [] OTHER -> ""

\* config['Settings'] of a file that parsed
SettingsSection(kind) ==
    IF kind = "settings_with_log_file"
    THEN [has_log_file |-> TRUE, log_file |-> "custom/app.log"]
    ELSE [has_log_file |-> FALSE, log_file |-> ""]

\* a loader whose fallback mapping has no log_file
load_config_bare(kind) ==
    IF ConfigError(kind) = ""
    THEN [settings |-> SettingsSection(kind), logged |-> <<>>]
    ELSE [settings |-> [has_log_file |-> FALSE, log_file |-> ""],
          logged |-> <<LogRecord("ERROR", "Failed to load config: " \o ConfigError(kind), 0)>>]

\* the whole function: the mapping it returns and the log calls it made
load_config(kind) ==
    IF ConfigError(kind) = ""
    THEN [settings |-> SettingsSection(kind), logged |-> <<>>]
    ELSE [settings |-> DefaultSettings,
          logged |-> <<LogRecord("ERROR", "Failed to load config: " \o ConfigError(kind), 0)>>]

\* config.get('log_file', 'logs/password_checker.log')
ConfigGet(settings) ==
    IF settings.has_log_file THEN settings.log_file ELSE DefaultLogFile

\* a setup that prints the diagnostic and goes on instead of exiting
setup_logging_no_exit(lg, log_file, fs_ok) ==
    IF fs_ok
    THEN [failed |-> FALSE, logging |-> basicConfig(lg, "INFO", {"file", "console"}),
          diag |-> <<>>, status |-> {}]
    ELSE [failed |-> FALSE, logging |-> lg,
          diag |-> <<"Failed to setup logging">>, status |-> {}]

\* setup_logging: fs_ok is whether mkdir and the opening of the log file succeed
setup_logging(lg, log_file, fs_ok) ==
    IF fs_ok
    THEN [failed |-> FALSE, logging |-> basicConfig(lg, "INFO", {"file", "console"}),
          diag |-> <<>>, status |-> {}]
    ELSE [failed |-> TRUE, logging |-> lg,
          diag |-> <<"Failed to setup logging">>, status |-> {1}]

----------------------------------------------------------------------------
(* A direct call of the evaluator, by any caller, with any argument. *)

ConfiguredLogging == basicConfig(FreshLogging, "INFO", {"file", "console"})

InitEval ==
    /\ pc = "call"
    /\ exit_status = {}
    /\ argv = "ok"
    /\ password \in EvalInputs
    /\ min_length \in MinLengths
    /\ cfg = "settings_with_log_file"
    /\ config = DefaultSettings
    /\ logging \in {FreshLogging, ConfiguredLogging}
    /\ stderr = <<>>
    /\ stdout = <<>>
    /\ score = 0
    /\ feedback = <<>>
    /\ password2 = password
    /\ score2 = 0
    /\ logging2 = logging

CallEvaluator ==
    /\ pc = "call"
    /\ LET r == check_password_strength(password, min_length)
       IN  /\ score' = r.score
           /\ feedback' = r.feedback
           /\ logging' = LogAll(logging, r.logged)
           /\ score2' = r.score
           /\ logging2' = LogAll(logging2, r.logged)
    /\ pc' = "returned"
    /\ UNCHANGED <<exit_status, argv, password, min_length, cfg, config,
                   stderr, stdout, password2>>

NextEval == CallEvaluator

SpecEval == InitEval /\ [][NextEval]_vars

----------------------------------------------------------------------------
(* Properties of the evaluator, checked under SpecEval. *)

Range(seq) == {seq[i] : i \in 1..Len(seq)}
Present(class, s) == \E i \in 1..Len(s) : s[i] \in class

\* the four class entries, in the order of the rules, for the classes in s
ClassEntries(s) ==
    LET all == <<[class |-> UpperClass, text |-> "Has uppercase"],
                 [class |-> LowerClass, text |-> "Has lowercase"],
                 [class |-> DigitClass, text |-> "Has numbers"],
                 [class |-> SpecialClass, text |-> "Has special characters"]>>
        Has(e) == Present(e.class, s)
        kept == SelectSeq(all, Has)
    IN  [i \in 1..Len(kept) |-> Plain(kept[i].text)]

Returned == pc = "returned"
ReturnedForStr == pc = "returned" /\ password.type = "str"

\* C1: for a string password the feedback is the one length-tier entry
\* followed by the class entries of the classes present, in the order
\* uppercase, lowercase, numbers, special characters, and the score is the
\* tier's points (2, 1 or 0) plus the number of class entries.
C1_RulesInFixedOrder ==
    ReturnedForStr =>
        LET n == Len(password.val)
            tier == IF n >= 12 THEN "Good length (>=12)"
                    ELSE IF n >= min_length THEN "Minimum length met"
                    ELSE "Too short"
            points == IF n >= 12 THEN 2 ELSE IF n >= min_length THEN 1 ELSE 0
            classes == ClassEntries(password.val)
        IN  /\ feedback = <<Plain(tier)>> \o classes
            /\ score = points + Len(classes)

\* "Ab1!efgh" with min_length 8 scored 5 with all five entries
C1_Witness ==
    /\ ReturnedForStr
    /\ password.val = Ab1Efgh
    /\ min_length = DefaultMinLength
    /\ score = 5
    /\ feedback = <<Plain("Minimum length met"), Plain("Has uppercase"),
                    Plain("Has lowercase"), Plain("Has numbers"),
                    Plain("Has special characters")>>

\* C2: for every input, string or not, the returned score is in 0..6 and the
\* returned feedback has between 1 and 5 entries.
C2_ScoreAndFeedbackBounds ==
    Returned => score \in 0..MaxScore /\ Len(feedback) \in 1..5

\* the top score, with every entry present
C2_Witness ==
    Returned /\ score = MaxScore /\ Len(feedback) = 5

\* C3: for a string password and a positive min_length, a password shorter
\* than min_length gets no length points and "Too short" in its feedback.
C3_TooShortBelowMinLength ==
    (ReturnedForStr /\ min_length > 0 /\ Len(password.val) < min_length) =>
        /\ Plain("Too short") \in Range(feedback)
        /\ score = Len(ClassEntries(password.val))

\* C4 as stated: a password shorter than min_length ("short" with 8 among
\* them) gets score 0 and "Too short" as its only feedback entry.
C4_ShortScoresZero ==
    (ReturnedForStr /\ Len(password.val) < min_length) =>
        score = 0 /\ feedback = <<Plain("Too short")>>

\* C4 as amended: "short" with min_length 8 gets score 1 and the feedback
\* "Too short", "Has lowercase"; a password shorter than min_length and than
\* 12 gets "Too short" as its first entry and one point per class entry
\* after it, so score 0 with "Too short" alone only when no class is present.
C4_ShortScoresItsClasses ==
    ReturnedForStr =>
        /\ (password.val = Short /\ min_length = 8) =>
              score = 1 /\ feedback = <<Plain("Too short"), Plain("Has lowercase")>>
        /\ (Len(password.val) < min_length /\ Len(password.val) < 12) =>
              /\ feedback[1] = Plain("Too short")
              /\ score = Len(feedback) - 1
              /\ (score = 0 /\ feedback = <<Plain("Too short")>>)
                    <=> ~ \E c \in {UpperClass, LowerClass, DigitClass, SpecialClass} :
                            Present(c, password.val)

C4_Witness ==
    ReturnedForStr /\ password.val = Short /\ min_length = 8 /\ score = 1

\* C5: a password that is not a string gets score 0 and exactly one feedback
\* entry, the error description "Error: Password must be a string"; no length
\* or class entry appears.
C5_NonStringFallback ==
    (Returned /\ password.type # "str") =>
        /\ score = 0
        /\ Len(feedback) = 1
        /\ feedback[1].prefix = "Error: "
        /\ feedback[1].text = "Password must be a string"
        /\ \A e \in Range(feedback) : e.prefix # ""

\* a bytes value of good length holding all four classes
C5_Witness ==
    /\ Returned
    /\ password.type = "bytes"
    /\ Len(password.val) >= GoodLength
    /\ feedback = <<ErrorEntry(ValueErrorMsg)>>

----------------------------------------------------------------------------
(* One run of the program: main under the __main__ guard. *)

\* a first log line that carries a character of the password
CheckingMsgLeaky(pw) ==
    LogRecord("INFO", "Checking password strength (length)",
              IF pw.val = <<>> THEN 0 ELSE Head(pw.val))

\* f"Checking password strength (length: {len(args.password)})"
CheckingMsg(pw) == LogRecord("INFO", "Checking password strength (length)", Len(pw.val))
\* f"Password scored {score}/6"
ScoredMsg(s) == LogRecord("INFO", "Password scored /6", s)
InterruptMsg == LogRecord("INFO", "Program terminated by user", 0)
UnexpectedMsg == LogRecord("CRITICAL", "Unexpected error", 0)

\* print(f"Password Score: {score}/6") and print(f"- {msg}")
ScoreLine(s) == [text |-> "Password Score: ", num |-> s, out_of |-> MaxScore]
FeedbackLine(e) == [text |-> "- " \o e.prefix \o e.text, num |-> 0, out_of |-> 0]
ResultLines(s, fb) == <<ScoreLine(s)>> \o [i \in 1..Len(fb) |-> FeedbackLine(fb[i])]

\* exit statuses of argparse and of the __main__ guard
UsageStatus == {2}
HelpStatus == {0}
NormalStatus == {0}
InterruptStatus == {0}
UnexpectedStatus == {1}

Running == {"parse_args", "load_config", "setup_logging", "log_checking",
            "evaluate", "print_results", "log_scored"}
Exited == {"returned", "exit_help", "exit_usage", "exit_setup_failure",
           "exit_interrupt", "exit_unexpected"}

Init ==
    /\ pc = "parse_args"
    /\ exit_status = {}
    /\ argv \in {"ok", "help", "no_password", "bad_min_length"}
    /\ IF argv = "ok"
       THEN /\ password \in MainPasswords
            /\ password2 \in MainPasswords
            /\ min_length \in MainMinLengths
            /\ cfg \in CfgKinds
       ELSE /\ password = PyStr(<<>>)
            /\ password2 = PyStr(<<>>)
            /\ min_length = DefaultMinLength
            /\ cfg = "settings_with_log_file"
    /\ config = [has_log_file |-> FALSE, log_file |-> ""]
    /\ logging = FreshLogging
    /\ stderr = <<>>
    /\ stdout = <<>>
    /\ score = 0
    /\ feedback = <<>>
    /\ score2 = 0
    /\ logging2 = FreshLogging

\* parser.parse_args(): argparse exits by itself on -h and on a usage error
ParseArgs ==
    /\ pc = "parse_args"
    /\ \/ /\ argv = "ok"
          /\ pc' = "load_config"
          /\ UNCHANGED <<exit_status, stderr, stdout>>
       \/ /\ argv = "help"
          /\ stdout' = Append(stdout, [text |-> "usage", num |-> 0, out_of |-> 0])
          /\ exit_status' = HelpStatus
          /\ pc' = "exit_help"
          /\ UNCHANGED stderr
       \/ /\ argv \in {"no_password", "bad_min_length"}
          /\ stderr' = Append(stderr, "usage")
          /\ exit_status' = UsageStatus
          /\ pc' = "exit_usage"
          /\ UNCHANGED stdout
    /\ UNCHANGED <<argv, password, min_length, cfg, config, logging, score,
                   feedback, password2, score2, logging2>>

\* config = load_config(args.config)
LoadConfig ==
    /\ pc = "load_config"
    /\ LET r == load_config(cfg)
       IN  /\ config' = r.settings
           /\ logging' = LogAll(logging, r.logged)
           /\ logging2' = LogAll(logging2, r.logged)
    /\ pc' = "setup_logging"
    /\ UNCHANGED <<exit_status, argv, password, min_length, cfg, stderr, stdout,
                   score, feedback, password2, score2>>

\* setup_logging(config.get('log_file', ...)); a failure ends in sys.exit(1)
SetupLogging ==
    /\ pc = "setup_logging"
    /\ \E fs_ok \in BOOLEAN :
         LET r == setup_logging(logging, ConfigGet(config), fs_ok)
             r2 == setup_logging(logging2, ConfigGet(config), fs_ok)
         IN  /\ logging' = r.logging
             /\ logging2' = r2.logging
             /\ stderr' = stderr \o r.diag
             /\ exit_status' = r.status
             /\ pc' = IF r.failed THEN "exit_setup_failure" ELSE "log_checking"
    /\ UNCHANGED <<argv, password, min_length, cfg, config, stdout, score,
                   feedback, password2, score2>>

\* logging.info(f"Checking password strength (length: ...)")
LogChecking ==
    /\ pc = "log_checking"
    /\ logging' = LogCall(logging, CheckingMsg(password))
    /\ logging2' = LogCall(logging2, CheckingMsg(password2))
    /\ pc' = "evaluate"
    /\ UNCHANGED <<exit_status, argv, password, min_length, cfg, config, stderr,
                   stdout, score, feedback, password2, score2>>

\* score, feedback = check_password_strength(args.password, args.min_length)
Evaluate ==
    /\ pc = "evaluate"
    /\ LET r == check_password_strength(password, min_length)
           r2 == check_password_strength(password2, min_length)
       IN  /\ score' = r.score
           /\ feedback' = r.feedback
           /\ logging' = LogAll(logging, r.logged)
           /\ score2' = r2.score
           /\ logging2' = LogAll(logging2, r2.logged)
    /\ pc' = "print_results"
    /\ UNCHANGED <<exit_status, argv, password, min_length, cfg, config, stderr,
                   stdout, password2>>

\* the prints of the results; a print that raises (standard output closed)
\* leaves the lines written so far and ends in the guard's `except Exception`
PrintResults ==
    /\ pc = "print_results"
    /\ LET lines == ResultLines(score, feedback)
       IN  \/ /\ stdout' = stdout \o lines
              /\ pc' = "log_scored"
              /\ UNCHANGED <<exit_status, logging, logging2>>
           \/ \E written \in 0..(Len(lines) - 1) :
                /\ stdout' = stdout \o SubSeq(lines, 1, written)
                /\ logging' = LogCall(logging, UnexpectedMsg)
                /\ logging2' = LogCall(logging2, UnexpectedMsg)
                /\ exit_status' = UnexpectedStatus
                /\ pc' = "exit_unexpected"
    /\ UNCHANGED <<argv, password, min_length, cfg, config, stderr, score,
                   feedback, password2, score2>>

\* logging.info(f"Password scored {score}/6"), then main returns
LogScored ==
    /\ pc = "log_scored"
    /\ logging' = LogCall(logging, ScoredMsg(score))
    /\ logging2' = LogCall(logging2, ScoredMsg(score2))
    /\ exit_status' = NormalStatus
    /\ pc' = "returned"
    /\ UNCHANGED <<argv, password, min_length, cfg, config, stderr, stdout,
                   score, feedback, password2, score2>>

\* KeyboardInterrupt anywhere in main: no `except Exception` catches it, the
\* guard logs and exits 0
Interrupt ==
    /\ pc \in Running
    /\ logging' = LogCall(logging, InterruptMsg)
    /\ logging2' = LogCall(logging2, InterruptMsg)
    /\ exit_status' = InterruptStatus
    /\ pc' = "exit_interrupt"
    /\ UNCHANGED <<argv, password, min_length, cfg, config, stderr, stdout,
                   score, feedback, password2, score2>>

Next ==
    \/ ParseArgs
    \/ LoadConfig
    \/ SetupLogging
    \/ LogChecking
    \/ Evaluate
    \/ PrintResults
    \/ LogScored
    \/ Interrupt

Spec == Init /\ [][Next]_vars

----------------------------------------------------------------------------
(* Properties of a run, checked under Spec. *)

InBoth(rec) == rec \in Range(logging.file) /\ rec \in Range(logging.console)
AfterLogChecking == {"evaluate", "print_results", "log_scored", "returned", "exit_unexpected"}
AfterLoadConfig == {"setup_logging", "exit_setup_failure", "log_checking"} \cup AfterLogChecking

\* C6: in every run, a failed load_config included, the messages logged
\* after setup_logging returned ("Checking password strength ..." and
\* "Password scored <score>/6") are in the log file and on the console.
C6_BothDestinationsAfterSetup ==
    /\ pc \in AfterLogChecking => InBoth(CheckingMsg(password))
    /\ pc = "returned" => InBoth(ScoredMsg(score))

\* C7 as stated: a run ends with status 0 when main returns or the user
\* interrupts it, with status 1 when setup_logging fails (the diagnostic on
\* the error stream, no score computed or printed) or an unexpected
\* exception escapes main, and with no other status.
C7_ExitStatusZeroOrOne ==
    pc \in Exited =>
        /\ exit_status \in {{0}, {1}}
        /\ pc \in {"returned", "exit_interrupt"} => exit_status = {0}
        /\ pc \in {"exit_setup_failure", "exit_unexpected"} => exit_status = {1}
        /\ pc = "exit_setup_failure" =>
              /\ "Failed to setup logging" \in Range(stderr)
              /\ stdout = <<>> /\ feedback = <<>>

\* C7 as amended: as stated, and besides a run ends with status 2 when
\* argparse rejects the command line (a usage message on the error stream,
\* before load_config, nothing scored or printed) and with status 0 after
\* -h; the program and argparse set no other status.
C7_ExitStatusZeroOneOrTwo ==
    /\ pc \in Running => exit_status = {}
    /\ pc \in Exited =>
        /\ exit_status \in {{0}, {1}, {2}}
        /\ pc \in {"returned", "exit_interrupt", "exit_help"} => exit_status = {0}
        /\ pc \in {"exit_setup_failure", "exit_unexpected"} => exit_status = {1}
        /\ pc = "exit_usage" <=> exit_status = {2}
        /\ pc = "exit_setup_failure" =>
              /\ "Failed to setup logging" \in Range(stderr)
              /\ stdout = <<>> /\ feedback = <<>>
        /\ pc = "exit_usage" =>
              /\ "usage" \in Range(stderr)
              /\ stdout = <<>> /\ feedback = <<>> /\ logging = FreshLogging
    /\ "Failed to setup logging" \in Range(stderr) => pc = "exit_setup_failure"

\* setup_logging failed in a run without a config file
C7_Witness ==
    /\ pc = "exit_setup_failure"
    /\ exit_status = {1}
    /\ cfg = "missing"
    /\ stderr = <<"Failed to setup logging">>

\* C8: load_config does not raise: on a missing or unparsable file, or one
\* without a Settings section, it returns the mapping whose log_file is
\* "logs/password_checker.log" and the run goes on to setup_logging; a run
\* that then returns has printed its score.
C8_LoadConfigFallsBack ==
    /\ [](pc \in AfterLoadConfig /\ cfg \in CfgFailures =>
             /\ config.has_log_file
             /\ config.log_file = "logs/password_checker.log"
             /\ ConfigGet(config) = "logs/password_checker.log")
    /\ [][(pc = "load_config" /\ pc' # "exit_interrupt") =>
             pc' = "setup_logging" /\ exit_status' = {}]_vars
    /\ [](pc = "returned" => stdout = ResultLines(score, feedback) /\ feedback # <<>>)

\* a run without a config file that printed its score and returned
C8_Witness ==
    /\ pc = "returned"
    /\ cfg = "missing"
    /\ config = DefaultSettings
    /\ Len(stdout) >= 2
    /\ stdout[1] = ScoreLine(score)

\* C10: two runs that differ in the password only, with passwords of equal
\* length and equal score, log the same messages to the same destinations.
C10_LogDependsOnLengthAndScore ==
    (/\ Len(password.val) = Len(password2.val)
     /\ check_password_strength(password, min_length).score
          = check_password_strength(password2, min_length).score)
        => logging = logging2

\* two different passwords, of one length and one score, both logged in full
C10_Witness ==
    /\ pc = "returned"
    /\ password # password2
    /\ Len(password.val) = Len(password2.val)
    /\ score = score2
    /\ Len(logging.file) = 2
    /\ logging = logging2

====
